---------------------------- MODULE Spec2Model ----------------------------
(***************************************************************************)
(* Model of core/metric_threads.py: the thread profile formulas and the    *)
(* two generators external_metric_thread and internal_metric_thread.       *)
(*                                                                         *)
(* Numbers.  Every length the code computes from its inputs lies in the    *)
(* field Q(sqrt 3), because tan(30 deg) = sqrt(3)/3.  A length is the      *)
(* record [r, s] standing for (r + s*sqrt 3)/MM millimetres, r and s       *)
(* integers; the arithmetic below is exact (the rounding of IEEE doubles   *)
(* is not modelled).  An angle is an integer in units of                   *)
(* 1/(pitch*n_starts) degree (pitch in 1/MM mm), so that the code's        *)
(* 360*z/(pitch*n_starts) is 360*z and 360/n_starts is 360*pitch.          *)
(***************************************************************************)
EXTENDS Integers, Sequences, FiniteSets, TLC

VARIABLES calls, probe

vars == <<calls, probe>>

\* One millimetre (iso.MM = 1.0) in fixed-point units.
MM == 800

-----------------------------------------------------------------------------
(* Exact arithmetic in Q(sqrt 3) *)

Q(a, b) == [r |-> a, s |-> b]

Rat(a) == Q(a, 0)

Zero == Rat(0)

Add(x, y) == Q(x.r + y.r, x.s + y.s)

Sub(x, y) == Q(x.r - y.r, x.s - y.s)

Neg(x) == Q(0 - x.r, 0 - x.s)

Times(k, x) == Q(k * x.r, k * x.s)

\* x * n / d; the inputs are chosen so that the division is exact.
Frac(x, n, d) == Q((x.r * n) \div d, (x.s * n) \div d)

Abs(n) == IF n < 0 THEN 0 - n ELSE n

Sgn(n) == IF n > 0 THEN 1 ELSE IF n < 0 THEN 0 - 1 ELSE 0

\* The sign of r + s*sqrt 3.  sqrt 3 < 2, so r decides when |r| >= 2|s|;
\* otherwise r*r and 3*s*s are compared (s is of the size of a pitch).
Sign(x) ==
    IF Sgn(x.r) = Sgn(x.s) \/ x.s = 0 THEN Sgn(x.r)
    ELSE IF x.r = 0 THEN Sgn(x.s)
    ELSE IF Abs(x.r) >= 2 * Abs(x.s) THEN Sgn(x.r)
    ELSE IF x.r * x.r > 3 * x.s * x.s THEN Sgn(x.r)
    ELSE Sgn(x.s)

Lt(x, y) == Sign(Sub(y, x)) = 1

Le(x, y) == Sign(Sub(y, x)) >= 0

MaxQ(x, y) == IF Lt(x, y) THEN y ELSE x

MinQ(x, y) == IF Lt(y, x) THEN y ELSE x

-----------------------------------------------------------------------------
(* Thread profile math *)

metric_thread_angle == 30

\* x * tan(deg2rad(metric_thread_angle())): (r + s*sqrt 3) * sqrt(3)/3.
TimesTan(x) == Q(x.s, x.r \div 3)

\* x / tan(deg2rad(metric_thread_angle())): (r + s*sqrt 3) * sqrt 3.
OverTan(x) == Q(3 * x.s, x.r)

metric_thread_perfect_height(pitch) == OverTan(Frac(Rat(pitch), 1, 2))

metric_thread_internal_radius_increase(diameter, pitch) ==
    Frac(metric_thread_perfect_height(pitch), 1, 10)

metric_thread_major_radius(diameter, pitch, internal) ==
    Add(IF internal
        THEN metric_thread_internal_radius_increase(diameter, pitch)
        ELSE Zero,
        Frac(Rat(diameter), 1, 2))

\* __metric_thread_effective_ratio() = 0.7, as the fraction Num/Den.
EffectiveRatioNum == 7

EffectiveRatioDen == 10

\* ratio * x and (1 - ratio) * x
EffectiveRatioOf(x) == Frac(x, EffectiveRatioNum, EffectiveRatioDen)

FlatRatioOf(x) ==
    Frac(x, EffectiveRatioDen - EffectiveRatioNum, EffectiveRatioDen)

MinorIgnoringInternal(diameter, pitch, internal) ==
    Sub(metric_thread_major_radius(diameter, pitch, FALSE),
        EffectiveRatioOf(metric_thread_perfect_height(pitch)))

MinorRadiusAdded(diameter, pitch, internal) ==
    Add(metric_thread_major_radius(diameter, pitch, internal),
        EffectiveRatioOf(metric_thread_perfect_height(pitch)))

metric_thread_minor_radius(diameter, pitch, internal) ==
    Sub(metric_thread_major_radius(diameter, pitch, internal),
        EffectiveRatioOf(metric_thread_perfect_height(pitch)))

metric_thread_perfect_major_radius(diameter, pitch, internal) ==
    Add(metric_thread_major_radius(diameter, pitch, internal),
        Frac(FlatRatioOf(metric_thread_perfect_height(pitch)), 1, 2))

PerfectMinorFromMajor(diameter, pitch, internal) ==
    Sub(metric_thread_major_radius(diameter, pitch, internal),
        metric_thread_perfect_height(pitch))

metric_thread_perfect_minor_radius(diameter, pitch, internal) ==
    Sub(metric_thread_perfect_major_radius(diameter, pitch, internal),
        metric_thread_perfect_height(pitch))

\* The diameter at which metric_thread_lead_in probes the radii, in mm.
LeadInProbeDiameter == 256

metric_thread_lead_in(pitch, internal) ==
    TimesTan(Sub(metric_thread_major_radius(LeadInProbeDiameter * MM,
                                            pitch, internal),
                 metric_thread_minor_radius(LeadInProbeDiameter * MM,
                                            pitch, internal)))

metric_thread_relief(pitch) == Frac(FlatRatioOf(Rat(pitch)), 1, 2)

-----------------------------------------------------------------------------
(* The profile functions applied to one (diameter, pitch) *)

MaxDiameterHalves == 20

MaxPitchQuarters == 6

ProbeDiameters == {k * (MM \div 2) : k \in 1..MaxDiameterHalves}

ProbePitches == {k * (MM \div 4) : k \in 1..MaxPitchQuarters}

NoProbe ==
    [valid |-> FALSE, diameter |-> 0, pitch |-> 0,
     perfect_height |-> Zero, relief |-> Zero,
     major_radius |-> [i \in BOOLEAN |-> Zero],
     minor_radius |-> [i \in BOOLEAN |-> Zero],
     perfect_major_radius |-> [i \in BOOLEAN |-> Zero],
     perfect_minor_radius |-> [i \in BOOLEAN |-> Zero],
     lead_in |-> [i \in BOOLEAN |-> Zero]]

Profile(d, p) ==
    [valid |-> TRUE, diameter |-> d, pitch |-> p,
     perfect_height |-> metric_thread_perfect_height(p),
     relief |-> metric_thread_relief(p),
     major_radius |->
        [i \in BOOLEAN |-> metric_thread_major_radius(d, p, i)],
     minor_radius |->
        [i \in BOOLEAN |-> metric_thread_minor_radius(d, p, i)],
     perfect_major_radius |->
        [i \in BOOLEAN |-> metric_thread_perfect_major_radius(d, p, i)],
     perfect_minor_radius |->
        [i \in BOOLEAN |-> metric_thread_perfect_minor_radius(d, p, i)],
     lead_in |-> [i \in BOOLEAN |-> metric_thread_lead_in(p, i)]]

ProbeProfile ==
    /\ \E d \in ProbeDiameters, p \in ProbePitches : probe' = Profile(d, p)
    /\ UNCHANGED calls

-----------------------------------------------------------------------------
(* Solids.  A solid of revolution is kept by the axial and radial extent   *)
(* of its parts: the thread material (swept starts or envelope), the base  *)
(* feature (cylinder or tube) and the revolved wedges cut from it.  The    *)
(* swept thread passes, for each start, through angle starts[k] at height  *)
(* zref and turns 360*(z - zref) angle units from there.                   *)

NoRect == [present |-> FALSE, rlo |-> Zero, rhi |-> Zero,
           zlo |-> Zero, zhi |-> Zero, ragged |-> FALSE]

Rect(rlo, rhi, zlo, zhi) ==
    [present |-> TRUE, rlo |-> rlo, rhi |-> rhi,
     zlo |-> zlo, zhi |-> zhi, ragged |-> FALSE]

NoSolid ==
    [thread |-> NoRect, swept |-> FALSE, zref |-> Zero, starts |-> <<>>,
     base |-> NoRect, base_angle |-> 0, wedges |-> <<>>]

Pt(x, z) == [x |-> x, z |-> z]

\* Workplane.translate((0,0,dz)) of a part
TranslateRect(rect, dz) ==
    [rect EXCEPT !.zlo = Add(@, dz), !.zhi = Add(@, dz)]

TranslateWedge(w, dz) ==
    [w EXCEPT !.pts = [k \in DOMAIN w.pts |->
                          Pt(w.pts[k].x, Add(w.pts[k].z, dz))]]

\* Workplane.translate((0,0,dz)) of a solid
Translate(solid, dz) ==
    [solid EXCEPT !.thread = TranslateRect(@, dz),
                  !.base = TranslateRect(@, dz),
                  !.zref = Add(@, dz),
                  !.wedges = [k \in DOMAIN solid.wedges |->
                                 TranslateWedge(solid.wedges[k], dz)]]

\* Workplane.rotate about the z axis by a angle units
Rotate(solid, a) ==
    [solid EXCEPT !.starts = [k \in DOMAIN solid.starts |->
                                 solid.starts[k] + a],
                  !.base_angle = @ + a]

\* The box cutter: a square of side 2*half about the axis over [zlo, zhi].
Box(half, zlo, zhi) == [half |-> half, zlo |-> zlo, zhi |-> zhi]

NoBox == Box(Zero, Zero, Zero)

\* A part less the box.  The box removes one end of the part, or all of
\* it; a part the box does not cover radially, or that it would split in
\* two, is marked ragged and keeps its extent.
CutRect(rect, box) ==
    IF ~rect.present THEN rect
    ELSE IF Le(box.zhi, rect.zlo) \/ Le(rect.zhi, box.zlo) THEN rect
    ELSE IF Lt(box.half, rect.rhi) THEN [rect EXCEPT !.ragged = TRUE]
    ELSE IF Le(box.zlo, rect.zlo) /\ Le(rect.zhi, box.zhi)
         THEN [rect EXCEPT !.present = FALSE]
    ELSE IF Le(box.zlo, rect.zlo) THEN [rect EXCEPT !.zlo = box.zhi]
    ELSE IF Le(rect.zhi, box.zhi) THEN [rect EXCEPT !.zhi = box.zlo]
    ELSE [rect EXCEPT !.ragged = TRUE]

\* threads.cut(square_shave)
Cut(solid, box) ==
    [solid EXCEPT !.thread = CutRect(@, box), !.base = CutRect(@, box)]

\* threads.cut(lead_in) / threads.cut(chamfer): the revolved quadrilateral
\* is recorded with the end it was cut at.
CutWedge(solid, end, pts) ==
    [solid EXCEPT !.wedges = Append(@, [end |-> end, pts |-> pts])]

\* threads.union(cyl) / threads.union(tube)
FuseBase(solid, rect, angle) ==
    [solid EXCEPT !.base = rect, !.base_angle = angle]

\* The angle at which start k of a swept solid crosses height z.
PhaseAt(solid, k, z) == solid.starts[k] + 360 * (z - solid.zref.r)

NoWire == [made |-> FALSE, pitch |-> 0, height |-> Zero, radius |-> Zero,
           z |-> Zero, angle |-> 0]

-----------------------------------------------------------------------------
(* Calls.  A frame holds one call's arguments, its local variables and     *)
(* its position; the lengths among the arguments are integers in 1/MM mm.  *)

\* The default -1.0 of force_outer_radius, cyl_extend_*, base_tube_od and
\* tube_extend_*.
Unset == 0 - MM

NoArgs ==
    [kind |-> "none", diameter |-> 0, pitch |-> 0, length |-> 0,
     z_start |-> 0, n_starts |-> 1,
     bottom_lead_in |-> FALSE, top_lead_in |-> FALSE,
     bottom_chamfer |-> FALSE, top_chamfer |-> FALSE,
     bottom_relief |-> FALSE, top_relief |-> FALSE,
     force_outer_radius |-> Unset, use_epsilon |-> TRUE,
     base_cylinder |-> TRUE,
     cyl_extend_bottom |-> Unset, cyl_extend_top |-> Unset,
     base_tube_od |-> Unset,
     tube_extend_bottom |-> Unset, tube_extend_top |-> Unset,
     envelope |-> FALSE]

IdleFrame ==
    [pc |-> "idle", args |-> NoArgs,
     extend_bottom |-> Zero, extend_top |-> Zero,
     z_off |-> Zero, t_start |-> Zero, t_length |-> Zero,
     outer_r |-> Zero, inner_r |-> Zero,
     epsilon |-> Zero, r_adj |-> Zero, z_budge |-> Zero, d_mid |-> Zero,
     wire |-> NoWire, profile |-> <<>>,
     thread_angle |-> 0, addl_start |-> 0,
     threads |-> NoSolid, square_shave |-> NoBox,
     render_early |-> FALSE, render_late |-> FALSE,
     ops |-> <<>>]

NewFrame(args) == [IdleFrame EXCEPT !.pc = "setup", !.args = args]

Log(f, names) == [f EXCEPT !.ops = @ \o names]

\* z_off = (1.0 - __metric_thread_effective_ratio()) * pitch / 4
ZOff(pitch) == Frac(FlatRatioOf(Rat(pitch)), 1, 4)

\* t_start: z_start, moved up by 2*z_off under bottom_relief
TStart(a) ==
    IF a.bottom_relief
    THEN Add(Rat(a.z_start), Times(2, ZOff(a.pitch)))
    ELSE Rat(a.z_start)

\* t_length: length, less 2*z_off for each relief flag
TLength(a) ==
    Sub(Sub(Rat(a.length),
            IF a.bottom_relief THEN Times(2, ZOff(a.pitch)) ELSE Zero),
        IF a.top_relief THEN Times(2, ZOff(a.pitch)) ELSE Zero)

\* cq.Wire.makeHelix(pitch*n_starts, t_length+pitch, inner_r), translated
\* by -pitch/2 and rotated by 360*(-pitch/2)/(pitch*n_starts)
HelixAtAdjustedRadius(f) ==
    [made |-> TRUE, pitch |-> f.args.pitch * f.args.n_starts,
     height |-> Add(f.t_length, Rat(f.args.pitch)),
     radius |-> f.r_adj,
     z |-> Neg(Frac(Rat(f.args.pitch), 1, 2)),
     angle |-> 360 * (0 - (f.args.pitch \div 2))]

Helix(f) ==
    [made |-> TRUE, pitch |-> f.args.pitch * f.args.n_starts,
     height |-> Add(f.t_length, Rat(f.args.pitch)),
     radius |-> f.inner_r,
     z |-> Neg(Frac(Rat(f.args.pitch), 1, 2)),
     angle |-> 360 * (0 - (f.args.pitch \div 2))]

\* The swept profile's material: radially the profile's extent, axially
\* the helix's extent widened by the profile's.
SweptRect(wire, profile) ==
    Rect(MinQ(profile[1].x, profile[2].x), MaxQ(profile[1].x, profile[2].x),
         Add(wire.z, profile[1].z),
         Add(Add(wire.z, wire.height), profile[4].z))

\* thread.sweep(wire, isFrenet=True); threads = thread
Sweep(f, profile) ==
    LET wire == Helix(f)
    IN  [Log(f, <<"makeHelix", "translate", "rotate", "sweep">>) EXCEPT
            !.wire = wire,
            !.profile = profile,
            !.thread_angle = 0,
            !.addl_start = 1,
            !.threads = [NoSolid EXCEPT
                            !.thread = SweptRect(wire, profile),
                            !.swept = TRUE,
                            !.zref = wire.z,
                            !.starts = <<wire.angle>>],
            !.pc = IF f.args.n_starts > 1 THEN "starts" ELSE "bottom_cut"]

AddStartOnceMore(f) ==
    LET a == f.thread_angle + 360 * f.args.pitch
    IN  [Log(f, <<"rotate", "union">>) EXCEPT
            !.thread_angle = a,
            !.addl_start = @ + 1,
            !.threads.starts = Append(@, f.wire.angle + a),
            !.pc = IF f.addl_start >= f.args.n_starts
                   THEN "bottom_cut" ELSE "starts"]

\* One pass of "for addl_start in range(1, n_starts)": the copy is turned
\* by a further 360/n_starts and united with the rest.
AddStart(f) ==
    LET a == f.thread_angle + 360 * f.args.pitch
    IN  [Log(f, <<"rotate", "union">>) EXCEPT
            !.thread_angle = a,
            !.addl_start = @ + 1,
            !.threads.starts = Append(@, f.wire.angle + a),
            !.pc = IF f.addl_start + 1 >= f.args.n_starts
                   THEN "bottom_cut" ELSE "starts"]

\* The 30 degree wedge at the bottom: lead_in of the external thread
\* (inward is TRUE) and chamfer of the internal one.
BottomWedge(f, inward) ==
    LET delta_r == Sub(f.outer_r, f.inner_r)
        rise == TimesTan(delta_r)
        lo == Sub(f.inner_r, delta_r)
        hi == Add(f.outer_r, delta_r)
        below == Sub(Neg(Rat(f.args.pitch)), rise)
    IN  <<Pt(lo, IF inward THEN Neg(rise) ELSE Times(2, rise)),
          Pt(hi, IF inward THEN Times(2, rise) ELSE Neg(rise)),
          Pt(hi, below), Pt(lo, below)>>

\* The 30 degree wedge at the top.
TopWedge(f, inward) ==
    LET delta_r == Sub(f.outer_r, f.inner_r)
        rise == TimesTan(delta_r)
        lo == Sub(f.inner_r, delta_r)
        hi == Add(f.outer_r, delta_r)
        above == Add(Add(f.t_length, Rat(f.args.pitch)), rise)
    IN  <<Pt(lo, IF inward THEN Add(f.t_length, rise)
                 ELSE Sub(f.t_length, Times(2, rise))),
          Pt(hi, IF inward THEN Sub(f.t_length, Times(2, rise))
                 ELSE Add(f.t_length, rise)),
          Pt(hi, above), Pt(lo, above)>>

TopCutShared(f) ==
    LET dz == Add(Rat(2 * f.args.pitch), f.t_length)
        box == Box(calls[1].square_shave.half,
                   Add(calls[1].square_shave.zlo, dz),
                   Add(calls[1].square_shave.zhi, dz))
    IN  [Log(f, <<"translate", "cut">>) EXCEPT
            !.square_shave = box,
            !.threads = Cut(@, box),
            !.pc = "top_taper"]

\* square_shave = square_shave.translate((0,0,pitch*2+t_length));
\* threads = threads.cut(square_shave)
TopCut(f) ==
    LET dz == Add(Rat(2 * f.args.pitch), f.t_length)
        box == Box(f.square_shave.half, Add(f.square_shave.zlo, dz),
                   Add(f.square_shave.zhi, dz))
    IN  [Log(f, <<"translate", "cut">>) EXCEPT
            !.square_shave = box,
            !.threads = Cut(@, box),
            !.pc = "top_taper"]

PlaceByZStart(f) ==
    LET moved == Translate(f.threads, f.t_start)
    IN  [Log(f, IF f.args.envelope THEN <<"translate">>
                ELSE <<"translate", "rotate">>) EXCEPT
            !.threads = IF f.args.envelope THEN moved
                        ELSE Rotate(moved, 360 * f.args.z_start),
            !.pc = "base_late"]

\* threads.translate((0,0,t_start)), then unless envelope
\* threads.rotate(360*t_start/(pitch*n_starts))
Place(f) ==
    LET moved == Translate(f.threads, f.t_start)
    IN  [Log(f, IF f.args.envelope THEN <<"translate">>
                ELSE <<"translate", "rotate">>) EXCEPT
            !.threads = IF f.args.envelope THEN moved
                        ELSE Rotate(moved, 360 * f.t_start.r),
            !.pc = "base_late"]

-----------------------------------------------------------------------------
(* external_metric_thread, step by step *)

\* The locals computed before any geometry is made.
ExtSetup(f) ==
    LET a == f.args
        z_off == ZOff(a.pitch)
        inner_r == metric_thread_minor_radius(a.diameter, a.pitch, FALSE)
        outer_r == IF a.force_outer_radius > 0
                   THEN Rat(a.force_outer_radius)
                   ELSE metric_thread_major_radius(a.diameter, a.pitch,
                                                   FALSE)
        epsilon == IF a.use_epsilon THEN OverTan(Frac(z_off, 1, 3))
                   ELSE Zero
    IN  [f EXCEPT
            !.extend_bottom = MaxQ(Zero, Rat(a.cyl_extend_bottom)),
            !.extend_top = MaxQ(Zero, Rat(a.cyl_extend_top)),
            !.z_off = z_off,
            !.t_start = TStart(a),
            !.t_length = TLength(a),
            !.outer_r = outer_r,
            !.inner_r = inner_r,
            !.epsilon = epsilon,
            !.r_adj = Sub(inner_r, epsilon),
            !.z_budge = TimesTan(epsilon),
            !.pc = IF a.envelope THEN "envelope" ELSE "sweep"]

\* envelope: the revolved rectangle from inner_r_adj to outer_r over
\* [-pitch, t_length + pitch]
ExtEnvelope(f) ==
    [Log(f, <<"revolve">>) EXCEPT
        !.threads = [NoSolid EXCEPT
                        !.thread = Rect(f.r_adj, f.outer_r,
                                        Neg(Rat(f.args.pitch)),
                                        Add(f.t_length, Rat(f.args.pitch)))],
        !.pc = "bottom_cut"]

\* The trapezoid swept along the helix: root-start, crest-start,
\* crest-end, root-end.
ExtProfileBudgeInward(f) ==
    LET half == Frac(Rat(f.args.pitch), 1, 2)
        d_mid == TimesTan(Sub(metric_thread_major_radius(
                                  f.args.diameter, f.args.pitch, FALSE),
                              f.outer_r))
        root == Sub(Sub(half, f.z_off), f.z_budge)
        crest == Add(f.z_off, d_mid)
    IN  <<Pt(f.r_adj, Neg(root)), Pt(f.outer_r, Neg(crest)),
          Pt(f.outer_r, crest), Pt(f.r_adj, root)>>

ExtProfile(f) ==
    LET half == Frac(Rat(f.args.pitch), 1, 2)
        d_mid == TimesTan(Sub(metric_thread_major_radius(
                                  f.args.diameter, f.args.pitch, FALSE),
                              f.outer_r))
        root == Add(Sub(half, f.z_off), f.z_budge)
        crest == Add(f.z_off, d_mid)
    IN  <<Pt(f.r_adj, Neg(root)), Pt(f.outer_r, Neg(crest)),
          Pt(f.outer_r, crest), Pt(f.r_adj, root)>>

ExtSweep(f) ==
    [Sweep(f, ExtProfile(f)) EXCEPT
        !.d_mid = TimesTan(Sub(metric_thread_major_radius(
                                   f.args.diameter, f.args.pitch, FALSE),
                               f.outer_r))]

ExtBottomCutCentered(f) ==
    LET box == Box(Frac(f.outer_r, 3, 2), Neg(Rat(f.args.pitch)),
                   Rat(f.args.pitch))
    IN  [Log(f, <<"box", "cut">>) EXCEPT
            !.square_shave = box,
            !.threads = Cut(@, box),
            !.pc = "bottom_taper"]

\* square_shave: the box of side outer_r*3 and height pitch*2 moved down
\* by pitch, cut from the threads.
ExtBottomCut(f) ==
    LET box == Box(Frac(f.outer_r, 3, 2), Neg(Rat(2 * f.args.pitch)), Zero)
    IN  [Log(f, <<"box", "translate", "cut">>) EXCEPT
            !.square_shave = box,
            !.threads = Cut(@, box),
            !.pc = "bottom_taper"]

ExtBottomLeadInAsChamfer(f) ==
    IF f.args.bottom_lead_in
    THEN [Log(f, <<"revolve", "cut">>) EXCEPT
             !.threads = CutWedge(@, "bottom", BottomWedge(f, FALSE)),
             !.pc = "base_early"]
    ELSE [f EXCEPT !.pc = "base_early"]

ExtBottomLeadIn(f) ==
    IF f.args.bottom_lead_in
    THEN [Log(f, <<"revolve", "cut">>) EXCEPT
             !.threads = CutWedge(@, "bottom", BottomWedge(f, TRUE)),
             !.pc = "base_early"]
    ELSE [f EXCEPT !.pc = "base_early"]

RenderCylEarlyIgnoringExtend(f) ==
    /\ f.args.base_cylinder
    /\ ~f.args.top_relief
    /\ ~f.args.envelope

render_cyl_early(f) ==
    /\ f.args.base_cylinder
    /\ ~f.args.top_relief
    /\ ~Lt(Zero, f.extend_top)
    /\ ~f.args.envelope

render_cyl_late(f) == f.args.base_cylinder /\ ~render_cyl_early(f)

ExtCylEarlyUncompensated(f) ==
    IF render_cyl_early(f)
    THEN LET dz == Sub(Rat(f.args.z_start), f.extend_bottom)
             top == Add(Rat(f.args.length + f.args.pitch), f.extend_bottom)
         IN  [Log(f, <<"circle", "extrude", "rotate", "translate",
                       "union">>) EXCEPT
                 !.render_early = TRUE,
                 !.threads = FuseBase(@, Rect(Zero, f.inner_r, dz,
                                              Add(top, dz)),
                                      0 - 360 * f.t_start.r),
                 !.pc = "top_cut"]
    ELSE [f EXCEPT !.pc = "top_cut"]

\* The cylinder fused before the top cut: extruded to
\* length+pitch+cyl_extend_bottom, turned back by the final rotation and
\* moved to -t_start+(z_start-cyl_extend_bottom).
ExtCylEarly(f) ==
    IF render_cyl_early(f)
    THEN LET dz == Add(Neg(f.t_start),
                       Sub(Rat(f.args.z_start), f.extend_bottom))
             top == Add(Rat(f.args.length + f.args.pitch), f.extend_bottom)
         IN  [Log(f, <<"circle", "extrude", "rotate", "translate",
                       "union">>) EXCEPT
                 !.render_early = TRUE,
                 !.threads = FuseBase(@, Rect(Zero, f.inner_r, dz,
                                              Add(top, dz)),
                                      0 - 360 * f.t_start.r),
                 !.pc = "top_cut"]
    ELSE [f EXCEPT !.pc = "top_cut"]

ExtTopLeadIn(f) ==
    IF f.args.top_lead_in
    THEN [Log(f, <<"revolve", "cut">>) EXCEPT
             !.threads = CutWedge(@, "top", TopWedge(f, TRUE)),
             !.pc = "place"]
    ELSE [f EXCEPT !.pc = "place"]

\* The cylinder fused after placement: extruded to
\* length+cyl_extend_bottom+cyl_extend_top from z_start-cyl_extend_bottom.
ExtCylLate(f) ==
    IF render_cyl_late(f)
    THEN LET zlo == Sub(Rat(f.args.z_start), f.extend_bottom)
             h == Add(Add(Rat(f.args.length), f.extend_bottom),
                      f.extend_top)
         IN  [Log(f, <<"circle", "extrude", "translate", "union">>) EXCEPT
                 !.render_late = TRUE,
                 !.threads = FuseBase(@, Rect(Zero, f.inner_r, zlo,
                                              Add(zlo, h)), 0),
                 !.pc = "done"]
    ELSE [f EXCEPT !.pc = "done"]

-----------------------------------------------------------------------------
(* internal_metric_thread, step by step *)

IntSetup(f) ==
    LET a == f.args
        z_off == ZOff(a.pitch)
        outer_r == metric_thread_major_radius(a.diameter, a.pitch, TRUE)
        inner_r == metric_thread_minor_radius(a.diameter, a.pitch, TRUE)
        epsilon == IF a.use_epsilon THEN OverTan(Frac(z_off, 1, 5))
                   ELSE Zero
    IN  [f EXCEPT
            !.extend_bottom = MaxQ(Zero, Rat(a.tube_extend_bottom)),
            !.extend_top = MaxQ(Zero, Rat(a.tube_extend_top)),
            !.z_off = z_off,
            !.t_start = TStart(a),
            !.t_length = TLength(a),
            !.outer_r = outer_r,
            !.inner_r = inner_r,
            !.epsilon = epsilon,
            !.r_adj = Add(outer_r, epsilon),
            !.z_budge = TimesTan(epsilon),
            !.pc = IF a.envelope THEN "envelope" ELSE "sweep"]

IntEnvelopeFromOuter(f) ==
    [Log(f, <<"revolve">>) EXCEPT
        !.threads = [NoSolid EXCEPT
                        !.thread = Rect(f.outer_r, f.r_adj,
                                        Neg(Rat(f.args.pitch)),
                                        Add(f.t_length, Rat(f.args.pitch)))],
        !.pc = "bottom_cut"]

\* envelope: the revolved rectangle from inner_r to outer_r_adj over
\* [-pitch, t_length + pitch]
IntEnvelope(f) ==
    [Log(f, <<"revolve">>) EXCEPT
        !.threads = [NoSolid EXCEPT
                        !.thread = Rect(f.inner_r, f.r_adj,
                                        Neg(Rat(f.args.pitch)),
                                        Add(f.t_length, Rat(f.args.pitch)))],
        !.pc = "bottom_cut"]

\* The trapezoid with its crest inwards: root-start, crest-start,
\* crest-end, root-end.
IntProfile(f) ==
    LET half == Frac(Rat(f.args.pitch), 1, 2)
        root == Add(Sub(half, f.z_off), f.z_budge)
    IN  <<Pt(f.r_adj, Neg(root)), Pt(f.inner_r, Neg(f.z_off)),
          Pt(f.inner_r, f.z_off), Pt(f.r_adj, root)>>

IntSweep(f) ==
    [Sweep(f, IntProfile(f)) EXCEPT
        !.pc = IF f.args.n_starts > 1 THEN "starts" ELSE "align"]

IntAddStart(f) ==
    [AddStart(f) EXCEPT
        !.pc = IF f.addl_start + 1 >= f.args.n_starts
               THEN "align" ELSE "starts"]

\* "Rotate so that the external threads would align": 180/n_starts
IntAlign(f) ==
    [Log(f, <<"rotate">>) EXCEPT
        !.threads = Rotate(@, 180 * f.args.pitch),
        !.pc = "bottom_cut"]

\* square_shave: the box of side max(outer_r*3, base_tube_od*1.125)
IntBottomCut(f) ==
    LET square_len == MaxQ(Times(3, f.outer_r),
                           Frac(Rat(f.args.base_tube_od), 9, 8))
        box == Box(Frac(square_len, 1, 2),
                   Neg(Rat(2 * f.args.pitch)), Zero)
    IN  [Log(f, <<"box", "translate", "cut">>) EXCEPT
            !.square_shave = box,
            !.threads = Cut(@, box),
            !.pc = "bottom_taper"]

IntBottomChamfer(f) ==
    IF f.args.bottom_chamfer
    THEN [Log(f, <<"revolve", "cut">>) EXCEPT
             !.threads = CutWedge(@, "bottom", BottomWedge(f, FALSE)),
             !.pc = "base_early"]
    ELSE [f EXCEPT !.pc = "base_early"]

TubeWanted(f) == Lt(Times(2, f.outer_r), Rat(f.args.base_tube_od))

render_tube_early(f) ==
    /\ TubeWanted(f)
    /\ ~f.args.top_relief
    /\ ~Lt(Zero, f.extend_top)
    /\ ~f.args.envelope

RenderTubeLateAlways(f) == TubeWanted(f)

render_tube_late(f) == TubeWanted(f) /\ ~render_tube_early(f)

\* The annulus between outer_r and base_tube_od/2.
Tube(f, zlo, zhi) ==
    Rect(f.outer_r, Frac(Rat(f.args.base_tube_od), 1, 2), zlo, zhi)

IntTubeEarly(f) ==
    IF render_tube_early(f)
    THEN LET dz == Add(Neg(f.t_start),
                       Sub(Rat(f.args.z_start), f.extend_bottom))
             top == Add(Rat(f.args.length + f.args.pitch), f.extend_bottom)
         IN  [Log(f, <<"circle", "circle", "extrude", "rotate",
                       "translate", "union">>) EXCEPT
                 !.render_early = TRUE,
                 !.threads = FuseBase(@, Tube(f, dz, Add(top, dz)),
                                      0 - 360 * f.t_start.r),
                 !.pc = "top_cut"]
    ELSE [f EXCEPT !.pc = "top_cut"]

IntTopChamfer(f) ==
    IF f.args.top_chamfer
    THEN [Log(f, <<"revolve", "cut">>) EXCEPT
             !.threads = CutWedge(@, "top", TopWedge(f, FALSE)),
             !.pc = "place"]
    ELSE [f EXCEPT !.pc = "place"]

IntTubeLate(f) ==
    IF render_tube_late(f)
    THEN LET zlo == Sub(Rat(f.args.z_start), f.extend_bottom)
             h == Add(Add(Rat(f.args.length), f.extend_bottom),
                      f.extend_top)
         IN  [Log(f, <<"circle", "circle", "extrude", "translate",
                       "union">>) EXCEPT
                 !.render_late = TRUE,
                 !.threads = FuseBase(@, Tube(f, zlo, Add(zlo, h)), 0),
                 !.pc = "done"]
    ELSE [f EXCEPT !.pc = "done"]

-----------------------------------------------------------------------------
(* The arguments the calls are made with *)

MaxStarts == 3

\* (diameter, pitch): M3x0.5 and M10x1.5
Sizes == {<<3 * MM, MM \div 2>>, <<10 * MM, (3 * MM) \div 2>>}

\* (length, z_start): 4.0 from -0.85, 1.5 from 0, 0.1 from 0
Spans == {<<4 * MM, 0 - ((17 * MM) \div 20)>>,
          <<(3 * MM) \div 2, 0>>,
          <<MM \div 10, 0>>}

\* cyl_extend_* and tube_extend_*: the default, or 0.5
Extends == {Unset, MM \div 2}

\* force_outer_radius: the default, or 0.03 inside diameter/2
ForcedRadius(diameter, forced) ==
    IF forced THEN (diameter \div 2) - ((3 * MM) \div 100) ELSE Unset

\* base_tube_od: the default, the diameter itself, or 1.5 times it
TubeDiameter(diameter, choice) ==
    CASE choice = "unset" -> Unset
      [] choice = "bore" -> diameter
      [] choice = "wide" -> (3 * diameter) \div 2

ExternalArgs ==
    {[NoArgs EXCEPT
         !.kind = "external",
         !.diameter = sz[1], !.pitch = sz[2],
         !.length = sp[1], !.z_start = sp[2], !.n_starts = n,
         !.bottom_lead_in = fl[1], !.top_lead_in = fl[2],
         !.bottom_relief = fl[3], !.top_relief = fl[4],
         !.use_epsilon = fl[5], !.envelope = fl[6],
         !.base_cylinder = fl[7],
         !.force_outer_radius = ForcedRadius(sz[1], fr),
         !.cyl_extend_bottom = eb, !.cyl_extend_top = et] :
     sz \in Sizes, sp \in Spans, n \in 1..MaxStarts,
     fl \in [1..7 -> BOOLEAN], fr \in BOOLEAN,
     eb \in Extends, et \in Extends}

InternalArgs ==
    {[NoArgs EXCEPT
         !.kind = "internal",
         !.diameter = sz[1], !.pitch = sz[2],
         !.length = sp[1], !.z_start = sp[2], !.n_starts = n,
         !.bottom_chamfer = fl[1], !.top_chamfer = fl[2],
         !.bottom_relief = fl[3], !.top_relief = fl[4],
         !.use_epsilon = fl[5], !.envelope = fl[6],
         !.base_tube_od = TubeDiameter(sz[1], od),
         !.tube_extend_bottom = eb, !.tube_extend_top = et] :
     sz \in Sizes, sp \in Spans, n \in 1..MaxStarts,
     fl \in [1..6 -> BOOLEAN], od \in {"unset", "bore", "wide"},
     eb \in Extends, et \in Extends}

MaxPairStarts == 2

\* The arguments of two calls made side by side: M3x0.5 over 1.5 mm.
PairArgs ==
    {[NoArgs EXCEPT
         !.kind = k,
         !.diameter = 3 * MM, !.pitch = MM \div 2,
         !.length = (3 * MM) \div 2, !.z_start = z, !.n_starts = n,
         !.bottom_relief = rel,
         !.envelope = env] :
     k \in {"external", "internal"}, z \in {0, 0 - ((17 * MM) \div 20)},
     n \in 1..MaxPairStarts, rel \in BOOLEAN, env \in BOOLEAN}

-----------------------------------------------------------------------------
(* Actions *)

Slots == {1, 2}

At(i, kind, pc) == calls[i].args.kind = kind /\ calls[i].pc = pc

Becomes(i, frame) ==
    /\ calls' = [calls EXCEPT ![i] = frame]
    /\ UNCHANGED probe

\* A generator is called with arguments a.
Call(i, argset) ==
    /\ calls[i].pc = "idle"
    /\ \E a \in argset : Becomes(i, NewFrame(a))

\* "return threads": the frame is dropped.
Return(i) ==
    /\ calls[i].pc = "done"
    /\ Becomes(i, IdleFrame)

ExtSetupStep(i) ==
    At(i, "external", "setup") /\ Becomes(i, ExtSetup(calls[i]))

ExtEnvelopeStep(i) ==
    At(i, "external", "envelope") /\ Becomes(i, ExtEnvelope(calls[i]))

ExtSweepStep(i) ==
    At(i, "external", "sweep") /\ Becomes(i, ExtSweep(calls[i]))

ExtAddStartStep(i) ==
    At(i, "external", "starts") /\ Becomes(i, AddStart(calls[i]))

ExtBottomCutStep(i) ==
    At(i, "external", "bottom_cut") /\ Becomes(i, ExtBottomCut(calls[i]))

ExtBottomLeadInStep(i) ==
    At(i, "external", "bottom_taper")
    /\ Becomes(i, ExtBottomLeadIn(calls[i]))

ExtCylEarlyStep(i) ==
    At(i, "external", "base_early") /\ Becomes(i, ExtCylEarly(calls[i]))

ExtTopCutStep(i) ==
    At(i, "external", "top_cut") /\ Becomes(i, TopCut(calls[i]))

ExtTopLeadInStep(i) ==
    At(i, "external", "top_taper") /\ Becomes(i, ExtTopLeadIn(calls[i]))

ExtPlaceStep(i) ==
    At(i, "external", "place") /\ Becomes(i, Place(calls[i]))

ExtCylLateStep(i) ==
    At(i, "external", "base_late") /\ Becomes(i, ExtCylLate(calls[i]))

IntSetupStep(i) ==
    At(i, "internal", "setup") /\ Becomes(i, IntSetup(calls[i]))

IntEnvelopeStep(i) ==
    At(i, "internal", "envelope") /\ Becomes(i, IntEnvelope(calls[i]))

IntSweepStep(i) ==
    At(i, "internal", "sweep") /\ Becomes(i, IntSweep(calls[i]))

IntAddStartStep(i) ==
    At(i, "internal", "starts") /\ Becomes(i, IntAddStart(calls[i]))

IntAlignStep(i) ==
    At(i, "internal", "align") /\ Becomes(i, IntAlign(calls[i]))

IntBottomCutStep(i) ==
    At(i, "internal", "bottom_cut") /\ Becomes(i, IntBottomCut(calls[i]))

IntBottomChamferStep(i) ==
    At(i, "internal", "bottom_taper")
    /\ Becomes(i, IntBottomChamfer(calls[i]))

IntTubeEarlyStep(i) ==
    At(i, "internal", "base_early") /\ Becomes(i, IntTubeEarly(calls[i]))

IntTopCutStep(i) ==
    At(i, "internal", "top_cut") /\ Becomes(i, TopCut(calls[i]))

IntTopChamferStep(i) ==
    At(i, "internal", "top_taper") /\ Becomes(i, IntTopChamfer(calls[i]))

IntPlaceStep(i) ==
    At(i, "internal", "place") /\ Becomes(i, Place(calls[i]))

IntTubeLateStep(i) ==
    At(i, "internal", "base_late") /\ Becomes(i, IntTubeLate(calls[i]))

external_metric_thread(i) ==
    \/ ExtSetupStep(i)
    \/ ExtEnvelopeStep(i)
    \/ ExtSweepStep(i)
    \/ ExtAddStartStep(i)
    \/ ExtBottomCutStep(i)
    \/ ExtBottomLeadInStep(i)
    \/ ExtCylEarlyStep(i)
    \/ ExtTopCutStep(i)
    \/ ExtTopLeadInStep(i)
    \/ ExtPlaceStep(i)
    \/ ExtCylLateStep(i)

internal_metric_thread(i) ==
    \/ IntSetupStep(i)
    \/ IntEnvelopeStep(i)
    \/ IntSweepStep(i)
    \/ IntAddStartStep(i)
    \/ IntAlignStep(i)
    \/ IntBottomCutStep(i)
    \/ IntBottomChamferStep(i)
    \/ IntTubeEarlyStep(i)
    \/ IntTopCutStep(i)
    \/ IntTopChamferStep(i)
    \/ IntPlaceStep(i)
    \/ IntTubeLateStep(i)

Init ==
    /\ calls = [i \in Slots |-> IdleFrame]
    /\ probe = NoProbe

\* One caller: every call runs to its return before the next is made.
Next ==
    \/ Call(1, ExternalArgs \cup InternalArgs)
    \/ external_metric_thread(1)
    \/ internal_metric_thread(1)
    \/ Return(1)

Spec == Init /\ [][Next]_vars

\* Two callers side by side: their calls' steps interleave in any order.
NextPair ==
    \E i \in Slots :
        \/ Call(i, PairArgs)
        \/ external_metric_thread(i)
        \/ internal_metric_thread(i)
        \/ Return(i)

SpecPair == Init /\ [][NextPair]_vars

\* The profile functions applied to any diameter and pitch.
NextMath == ProbeProfile

SpecMath == Init /\ [][NextMath]_vars

-----------------------------------------------------------------------------
(* Properties *)

Done(i, kind) == At(i, kind, "done")

SameThread(a, b) ==
    /\ a.diameter = b.diameter
    /\ a.pitch = b.pitch
    /\ a.n_starts = b.n_starts

\* Slot i returned an external envelope and slot j an internal envelope of
\* the same diameter, pitch and n_starts.
EnvelopePair(i, j) ==
    /\ Done(i, "external") /\ calls[i].args.envelope
    /\ Done(j, "internal") /\ calls[j].args.envelope
    /\ SameThread(calls[i].args, calls[j].args)
    /\ calls[i].threads.thread.present
    /\ calls[j].threads.thread.present

\* The width of the common part of [alo, ahi] and [blo, bhi]; not positive
\* when they have none.
Common(alo, ahi, blo, bhi) == Sub(MinQ(ahi, bhi), MaxQ(alo, blo))

RadialOverlap(i, j) ==
    Common(calls[i].threads.thread.rlo, calls[i].threads.thread.rhi,
           calls[j].threads.thread.rlo, calls[j].threads.thread.rhi)

AxialOverlap(i, j) ==
    Common(calls[i].threads.thread.zlo, calls[i].threads.thread.zhi,
           calls[j].threads.thread.zlo, calls[j].threads.thread.zhi)

\* C1 as stated: the external and the internal envelope of one thread do
\* not overlap: where they share an axial range, their radial intervals
\* share no more than the epsilon budge.
C1_EnvelopesDisjoint ==
    \A i \in Slots, j \in Slots :
        EnvelopePair(i, j) /\ Lt(Zero, AxialOverlap(i, j))
        => Le(RadialOverlap(i, j),
              MaxQ(calls[i].epsilon, calls[j].epsilon))

\* C1 amended: the external and the internal envelope of one thread do
\* overlap wherever they share an axial range: their radial intervals
\* share exactly [inner_r of the internal, outer_r of the external], of
\* width 0.6 * perfect height, more than either epsilon budge; the
\* external envelope lies strictly below the internal one at both radii.
C1_EnvelopesShareFlank ==
    \A i \in Slots, j \in Slots :
        EnvelopePair(i, j)
        => LET e == calls[i].threads.thread
               n == calls[j].threads.thread
           IN  /\ RadialOverlap(i, j) = Sub(e.rhi, n.rlo)
               /\ n.rlo = calls[j].inner_r
               /\ e.rhi = calls[i].outer_r
               /\ RadialOverlap(i, j)
                    = Frac(metric_thread_perfect_height(
                               calls[i].args.pitch), 6, 10)
               /\ Lt(MaxQ(calls[i].epsilon, calls[j].epsilon),
                     RadialOverlap(i, j))
               /\ Lt(e.rlo, n.rlo)
               /\ Lt(e.rhi, n.rhi)

C1_Witness ==
    \E i \in Slots, j \in Slots :
        /\ EnvelopePair(i, j)
        /\ Lt(Zero, AxialOverlap(i, j))
        /\ calls[i].args.z_start # calls[j].args.z_start

\* The frame is past the final placement of a swept thread.
Placed(f) == f.pc \in {"base_late", "done"} /\ f.threads.swept

\* Absolute heights at which the phase is read: 0, 1 mm, z_start, and the
\* start of the thread.
Heights(f) == {0, MM, f.args.z_start, f.t_start.r}

\* C2: once placed, start k of the thread crosses absolute height z at
\* the angle 360*z/(pitch*n_starts) + (k-1)*360/n_starts for the external
\* thread and at that angle plus 180/n_starts for the internal thread,
\* whatever z_start, t_start and the relief flags are.
C2_PhaseIndependentOfZStart ==
    \A i \in Slots :
        Placed(calls[i])
        => \A z \in Heights(calls[i]) :
               \A k \in DOMAIN calls[i].threads.starts :
                   PhaseAt(calls[i].threads, k, z)
                     = 360 * z + (k - 1) * 360 * calls[i].args.pitch
                       + (IF calls[i].args.kind = "internal"
                          THEN 180 * calls[i].args.pitch ELSE 0)

C2_Witness ==
    /\ Placed(calls[1])
    /\ calls[1].args.kind = "internal"
    /\ calls[1].args.bottom_relief
    /\ calls[1].args.z_start < 0
    /\ calls[1].args.n_starts > 1

\* C3: for every diameter and pitch > 0 the external minor radius is less
\* than the external major radius, and the internal major radius is
\* greater than the external major radius.
C3_RadiiOrdered ==
    probe.valid
    => /\ Lt(probe.minor_radius[FALSE], probe.major_radius[FALSE])
       /\ Lt(probe.major_radius[FALSE], probe.major_radius[TRUE])

C3_Witness ==
    /\ probe.valid
    /\ probe.diameter = MM \div 2
    /\ probe.pitch = MaxPitchQuarters * (MM \div 4)
    /\ Sign(probe.minor_radius[FALSE]) < 0

\* The header's example of a male thread: external_metric_thread(3.0,
\* 0.5, 4.0, z_start=-0.85, top_lead_in=True).
ScenarioMale ==
    [NoArgs EXCEPT
        !.kind = "external", !.diameter = 3 * MM, !.pitch = MM \div 2,
        !.length = 4 * MM, !.z_start = 0 - ((17 * MM) \div 20),
        !.top_lead_in = TRUE]

OneWedgeAtTop(f) ==
    /\ Len(f.threads.wedges) = 1
    /\ f.threads.wedges[1].end = "top"

MaleCylinder(f, height) ==
    /\ f.threads.base.present
    /\ ~f.threads.base.ragged
    /\ f.threads.base.rlo = Zero
    /\ f.threads.base.rhi
         = metric_thread_minor_radius(f.args.diameter, f.args.pitch, FALSE)
    /\ f.threads.base.zlo = Rat(f.args.z_start)
    /\ Sub(f.threads.base.zhi, f.threads.base.zlo) = Rat(height)

\* C4 as stated: the example male thread has its minor-radius cylinder
\* from z = -0.85 with axial height 4.0 + 0.85, and exactly one lead-in
\* wedge, at the top.
C4_MaleCylinderLengthPlusOffset ==
    \A i \in Slots :
        Done(i, "external") /\ calls[i].args = ScenarioMale
        => /\ MaleCylinder(calls[i], 4 * MM + (17 * MM) \div 20)
           /\ OneWedgeAtTop(calls[i])

\* C4 amended: the example male thread has its minor-radius cylinder from
\* z = -0.85 with axial height 4.0 (the length), ending at z = 3.15, and
\* exactly one lead-in wedge, at the top.
C4_MaleCylinderLength ==
    \A i \in Slots :
        Done(i, "external") /\ calls[i].args = ScenarioMale
        => /\ MaleCylinder(calls[i], 4 * MM)
           /\ calls[i].threads.base.zhi = Rat((63 * MM) \div 20)
           /\ OneWedgeAtTop(calls[i])

C4_Witness ==
    /\ Done(1, "external")
    /\ calls[1].args = ScenarioMale
    /\ calls[1].render_early

\* The header's example of a female thread: internal_metric_thread(3.0,
\* 0.5, 1.5, bottom_chamfer=True, base_tube_od=4.5).
ScenarioFemale ==
    [NoArgs EXCEPT
        !.kind = "internal", !.diameter = 3 * MM, !.pitch = MM \div 2,
        !.length = (3 * MM) \div 2, !.bottom_chamfer = TRUE,
        !.base_tube_od = (9 * MM) \div 2]

Count(ops, name) == Cardinality({k \in DOMAIN ops : ops[k] = name})

WedgeEnds(f) == {f.threads.wedges[k].end : k \in DOMAIN f.threads.wedges}

\* C5: the internal generator fuses a base tube exactly when base_tube_od
\* exceeds twice the internal major radius; the tube is then fused once
\* (never both early and late) with outer diameter base_tube_od; a chamfer
\* is cut at exactly the ends whose flag is set, as in the header's
\* example (a tube of outer diameter 4.5, a bottom chamfer, no top one).
C5_TubeOnceAndChamfersAsFlagged ==
    \A i \in Slots :
        Done(i, "internal")
        => LET f == calls[i]
               wanted == Lt(Times(2, metric_thread_major_radius(
                                         f.args.diameter, f.args.pitch,
                                         TRUE)),
                            Rat(f.args.base_tube_od))
           IN  /\ f.threads.base.present <=> wanted
               /\ ~(f.render_early /\ f.render_late)
               /\ Count(f.ops, "extrude") = (IF wanted THEN 1 ELSE 0)
               /\ Count(f.ops, "extrude") = Count(f.ops, "union")
                                            - (f.args.n_starts - 1)
                                              * (IF f.args.envelope
                                                 THEN 0 ELSE 1)
               /\ wanted => Times(2, f.threads.base.rhi)
                              = Rat(f.args.base_tube_od)
               /\ ("bottom" \in WedgeEnds(f)) <=> f.args.bottom_chamfer
               /\ ("top" \in WedgeEnds(f)) <=> f.args.top_chamfer
               /\ Len(f.threads.wedges) = Cardinality(WedgeEnds(f))
               /\ f.args = ScenarioFemale
                  => /\ Times(2, f.threads.base.rhi) = Rat((9 * MM) \div 2)
                     /\ WedgeEnds(f) = {"bottom"}

C5_Witness ==
    /\ Done(1, "internal")
    /\ calls[1].args = ScenarioFemale
    /\ calls[1].threads.base.present

\* The frame has computed its locals.
SetUp(f) == f.pc \notin {"idle", "setup"}

\* Both relief flags are set and the length is positive and below the
\* total relief allowance 4 * z_off.
ShortForReliefs(a) ==
    /\ a.bottom_relief /\ a.top_relief
    /\ a.length > 0
    /\ Lt(Rat(a.length), Times(4, ZOff(a.pitch)))

\* C6: with both relief flags set and a positive length below the relief
\* allowance, the trimmed length t_length is never negative when it is
\* used.
C6_TrimmedLengthNotNegative ==
    \A i \in Slots :
        SetUp(calls[i]) /\ ShortForReliefs(calls[i].args)
        => Sign(calls[i].t_length) >= 0

Replicated(f) ==
    f.threads.swept /\ f.pc \notin {"idle", "setup", "sweep", "starts"}

\* One full turn, in angle units.
Turn(f) == 360 * f.args.pitch * f.args.n_starts

\* C8: in non-envelope mode the replication loop makes exactly
\* n_starts - 1 unions (none when n_starts = 1), and the solid then holds
\* n_starts copies of the swept profile, copy k at k * 360/n_starts from
\* the first, each the previous one turned by a further 360/n_starts;
\* these angles are pairwise distinct within a turn.
C8_StartsReplicated ==
    \A i \in Slots :
        LET f == calls[i]
        IN  /\ Replicated(f)
               => /\ Len(f.threads.starts) = f.args.n_starts
                  /\ f.addl_start = f.args.n_starts
                  /\ f.thread_angle
                       = (f.args.n_starts - 1) * 360 * f.args.pitch
                  /\ \A k \in DOMAIN f.threads.starts :
                         f.threads.starts[k] - f.threads.starts[1]
                           = (k - 1) * 360 * f.args.pitch
                  /\ \A k \in DOMAIN f.threads.starts :
                         \A m \in DOMAIN f.threads.starts :
                             k # m => (f.threads.starts[k]
                                       - f.threads.starts[m]) % Turn(f) # 0
            /\ f.threads.swept /\ f.pc \in {"align", "bottom_cut"}
               => Count(f.ops, "union") = f.args.n_starts - 1

C8_Witness ==
    /\ Replicated(calls[1])
    /\ calls[1].pc = "bottom_cut"
    /\ calls[1].args.n_starts = MaxStarts
    /\ Count(calls[1].ops, "union") = MaxStarts - 1

C8_WitnessSingleStart ==
    /\ Replicated(calls[1])
    /\ calls[1].args.n_starts = 1
    /\ Count(calls[1].ops, "union") = 0

\* C9: for every diameter and pitch > 0 and both values of internal, the
\* perfect minor radius is the perfect major radius less the perfect
\* height, exactly.
C9_PerfectMinorIsMajorLessHeight ==
    probe.valid
    => \A i \in BOOLEAN :
           probe.perfect_minor_radius[i]
             = Sub(probe.perfect_major_radius[i], probe.perfect_height)

C9_Witness ==
    /\ probe.valid
    /\ probe.perfect_minor_radius[TRUE] # probe.perfect_minor_radius[FALSE]
    /\ probe.perfect_major_radius[TRUE] # probe.major_radius[TRUE]

\* C10: for every diameter and pitch > 0 and both values of internal,
\* tan(30 deg) * (major radius - minor radius) at that diameter equals
\* metric_thread_lead_in(pitch, internal), which is computed at diameter
\* 256; and the lead-in is the same for internal and external threads.
C10_LeadInDiameterIndependent ==
    probe.valid
    => /\ \A i \in BOOLEAN :
              TimesTan(Sub(probe.major_radius[i], probe.minor_radius[i]))
                = probe.lead_in[i]
       /\ probe.lead_in[TRUE] = probe.lead_in[FALSE]

C10_Witness ==
    /\ probe.valid
    /\ probe.diameter # LeadInProbeDiameter * MM
    /\ probe.diameter = 3 * MM
    /\ Lt(Zero, probe.lead_in[TRUE])

\* The cylinder of the external thread as the caller asked for it: of the
\* unadjusted minor radius, over [z_start - cyl_extend_bottom,
\* z_start + length + cyl_extend_top], not turned.
CylinderAsAsked(f) ==
    LET a == f.args
        eb == IF a.cyl_extend_bottom > 0 THEN a.cyl_extend_bottom ELSE 0
        et == IF a.cyl_extend_top > 0 THEN a.cyl_extend_top ELSE 0
    IN  /\ f.threads.base
             = Rect(Zero,
                    metric_thread_minor_radius(a.diameter, a.pitch, FALSE),
                    Rat(a.z_start - eb), Rat(a.z_start + a.length + et))
        /\ f.threads.base_angle = 0

\* C11: for every external call with base_cylinder exactly one of
\* render_cyl_early and render_cyl_late is true, and on either path the
\* returned solid holds one cylinder of the unadjusted minor radius over
\* exactly [z_start - cyl_extend_bottom, z_start + length + cyl_extend_top]
\* with no rotation left on it; without base_cylinder no cylinder is
\* fused.
C11_CylinderSameEarlyOrLate ==
    \A i \in Slots :
        Done(i, "external")
        => LET f == calls[i]
           IN  IF f.args.base_cylinder
               THEN /\ render_cyl_early(f) # render_cyl_late(f)
                    /\ f.render_early = render_cyl_early(f)
                    /\ f.render_late = render_cyl_late(f)
                    /\ Count(f.ops, "extrude") = 1
                    /\ CylinderAsAsked(f)
               ELSE /\ ~render_cyl_early(f) /\ ~render_cyl_late(f)
                    /\ ~f.threads.base.present
                    /\ Count(f.ops, "extrude") = 0

\* An early cylinder under bottom relief, a bottom extension and a
\* negative z_start: its surplus, pre-rotation and pre-translation are all
\* in play.
C11_Witness ==
    /\ Done(1, "external")
    /\ calls[1].render_early
    /\ calls[1].args.bottom_relief
    /\ calls[1].args.cyl_extend_bottom > 0
    /\ calls[1].args.z_start < 0
    /\ calls[1].args.force_outer_radius > 0

C11_WitnessLate ==
    /\ Done(1, "external")
    /\ calls[1].render_late
    /\ ~calls[1].args.envelope
    /\ calls[1].args.cyl_extend_top > 0

\* The least index of name in ops; 0 when it is not there.
FirstIndex(ops, name) ==
    IF \E k \in DOMAIN ops : ops[k] = name
    THEN CHOOSE k \in DOMAIN ops :
             ops[k] = name /\ \A m \in 1..(k - 1) : ops[m] # name
    ELSE 0

\* The cutter where the bottom cut and the top cut leave it.
AtBottom(f) ==
    /\ f.square_shave.zlo = Neg(Rat(2 * f.args.pitch))
    /\ f.square_shave.zhi = Zero

AtTop(f) ==
    /\ f.square_shave.zlo = f.t_length
    /\ f.square_shave.zhi = Add(f.t_length, Rat(2 * f.args.pitch))

\* The threads have not been moved to t_start yet.
Unplaced(f) ==
    f.threads.swept => f.threads.zref = Neg(Frac(Rat(f.args.pitch), 1, 2))

\* C12: in every call of either generator the bottom cutter, over
\* [-2*pitch, 0], is applied before any base feature is fused, and the top
\* cutter, over [t_length, t_length + 2*pitch], after an early fusion and
\* before the final placement; the swept or envelope material overshoots
\* each end by less than the cutter's height, so that before placement
\* no thread material is left outside [0, t_length].
C12_CuttersTrimBothEnds ==
    \A i \in Slots :
        LET f == calls[i]
            t == f.threads.thread
            fused == Count(f.ops, "extrude") > 0
        IN  /\ f.pc = "bottom_cut"
               => /\ t.present /\ ~fused /\ Count(f.ops, "cut") = 0
                  /\ Lt(t.zlo, Zero)
                  /\ Lt(Neg(Rat(2 * f.args.pitch)), t.zlo)
                  /\ Lt(f.t_length, t.zhi)
                  /\ Lt(t.zhi, Add(f.t_length, Rat(2 * f.args.pitch)))
            /\ f.pc \in {"bottom_taper", "base_early"}
               => /\ AtBottom(f) /\ ~fused /\ ~f.threads.base.present
                  /\ t.present /\ ~t.ragged /\ t.zlo = Zero
            /\ f.pc = "top_cut"
               => /\ AtBottom(f) /\ Unplaced(f)
                  /\ fused = f.render_early
                  /\ f.threads.base.present = f.render_early
            /\ f.pc \in {"top_taper", "place"}
               => /\ AtTop(f) /\ Unplaced(f)
                  /\ fused = f.render_early
                  /\ ~t.ragged
                  /\ t.present => t.zlo = Zero /\ t.zhi = f.t_length
            /\ fused
               => /\ FirstIndex(f.ops, "box") > 0
                  /\ FirstIndex(f.ops, "cut") > FirstIndex(f.ops, "box")
                  /\ FirstIndex(f.ops, "extrude")
                       > FirstIndex(f.ops, "cut")

\* A swept internal thread with an early tube, just after its top cut.
C12_Witness ==
    /\ At(1, "internal", "top_taper")
    /\ calls[1].render_early
    /\ calls[1].threads.swept
    /\ calls[1].threads.thread.present
    /\ calls[1].args.bottom_relief
    /\ calls[1].args.n_starts > 1

\* The point pt lies on the line through (x0, z0) at 30 degrees to the
\* radial direction, z falling (rising = FALSE) or rising with the radius:
\* (z - z0) = -+ (x - x0) * tan(30), written without a division.
OnFlank(pt, x0, z0, rising) ==
    Sub(pt.x, x0) = OverTan(IF rising THEN Sub(pt.z, z0) ELSE Sub(z0, pt.z))

\* The four vertices of a profile lie on the two flank lines through
\* (x0, -z0) and (x0, z0); the flanks converge toward the tip, which is
\* at a greater radius for an external thread and a smaller for an internal.
OnFlanks(profile, x0, z0, external) ==
    /\ OnFlank(profile[1], x0, Neg(z0), external)
    /\ OnFlank(profile[2], x0, Neg(z0), external)
    /\ OnFlank(profile[3], x0, z0, ~external)
    /\ OnFlank(profile[4], x0, z0, ~external)

\* The frame of the same call had use_epsilon been False, after its sweep.
Unbudged(f) ==
    LET g == NewFrame([f.args EXCEPT !.use_epsilon = FALSE])
    IN  IF f.args.kind = "external" THEN ExtSweep(ExtSetup(g))
        ELSE IntSweep(IntSetup(g))

\* C13: with use_epsilon the external profile's root vertices are strictly
\* inside the base cylinder's radius (inner_r_adj < inner_r) and the
\* internal profile's outer vertices strictly outside outer_r, both moved
\* along the 30-degree flank lines, which still pass through the unadjusted
\* radius at -+(pitch/2 - z_off): the tip is that of the profile without
\* epsilon, whose wide vertices are those two points.  Without use_epsilon
\* the adjusted radius is the unadjusted one and the axial budge is 0.
C13_EpsilonSlidesAlongFlanks ==
    \A i \in Slots :
        LET f == calls[i]
            a == f.args
            external == a.kind = "external"
            base_r == IF external THEN f.inner_r ELSE f.outer_r
            z0 == Sub(Frac(Rat(a.pitch), 1, 2), f.z_off)
            g == Unbudged(f)
        IN  f.pc \notin {"idle", "setup"}
            => /\ IF a.use_epsilon
                  THEN /\ Lt(Zero, f.epsilon) /\ Lt(Zero, f.z_budge)
                       /\ IF external THEN Lt(f.r_adj, f.inner_r)
                          ELSE Lt(f.outer_r, f.r_adj)
                  ELSE f.r_adj = base_r /\ f.z_budge = Zero
               /\ f.wire.made
                  => /\ f.profile[1].x = f.r_adj
                     /\ f.profile[4].x = f.r_adj
                     /\ Lt(z0, f.profile[4].z) = a.use_epsilon
                     /\ OnFlanks(f.profile, base_r, z0, external)
                     /\ OnFlanks(g.profile, base_r, z0, external)
                     /\ g.profile[1] = Pt(base_r, Neg(z0))
                     /\ g.profile[4] = Pt(base_r, z0)
                     /\ g.profile[2] = f.profile[2]
                     /\ g.profile[3] = f.profile[3]

\* A swept external thread with epsilon and a forced outer radius.
C13_Witness ==
    /\ Done(1, "external")
    /\ calls[1].wire.made
    /\ calls[1].args.use_epsilon
    /\ calls[1].args.force_outer_radius > 0
    /\ Lt(calls[1].r_adj, calls[1].inner_r)

\* A swept internal thread with epsilon.
C13_WitnessInternal ==
    /\ Done(1, "internal")
    /\ calls[1].wire.made
    /\ calls[1].args.use_epsilon
    /\ Lt(calls[1].outer_r, calls[1].r_adj)

\* A swept thread without epsilon.
C13_WitnessPlain ==
    /\ Done(1, "external")
    /\ calls[1].wire.made
    /\ ~calls[1].args.use_epsilon
    /\ calls[1].r_adj = calls[1].inner_r

\* The wedge w of the call f is bounded by the 30-degree line that meets
\* inner_r at the end face and outer_r a lead-in further in, and by
\* nothing else within the thread: its slanted edge runs from below inner_r
\* to above outer_r and its other edges lie beyond the end face.
LeadInWedge(f, w) ==
    LET moved == IF f.pc \in {"base_late", "done"} THEN f.t_start ELSE Zero
        bottom == w.end = "bottom"
        face == IF bottom THEN moved ELSE Add(moved, f.t_length)
        run == metric_thread_lead_in(f.args.pitch, FALSE)
        crest == IF bottom THEN Add(face, run) ELSE Sub(face, run)
        beyond(z) == IF bottom THEN Lt(z, face) ELSE Lt(face, z)
    IN  /\ OnFlank(w.pts[1], f.inner_r, face, bottom)
        /\ OnFlank(w.pts[2], f.inner_r, face, bottom)
        /\ OnFlank(Pt(f.outer_r, crest), f.inner_r, face, bottom)
        /\ Lt(Zero, run)
        /\ Lt(w.pts[1].x, f.inner_r)
        /\ Lt(f.outer_r, w.pts[2].x)
        /\ w.pts[3].x = w.pts[2].x
        /\ w.pts[4].x = w.pts[1].x
        /\ beyond(w.pts[1].z)
        /\ beyond(w.pts[3].z)
        /\ w.pts[4].z = w.pts[3].z

\* The ends of the call f that have had their turn at a lead-in.
EndsPassed(f) ==
    (IF f.pc \in {"base_early", "top_cut", "top_taper", "place",
                  "base_late", "done"}
     THEN {"bottom"} ELSE {})
    \cup (IF f.pc \in {"place", "base_late", "done"} THEN {"top"} ELSE {})

\* C14: in an external thread with the natural outer radius a lead-in
\* wedge removes what lies beyond a 30-degree line that meets the minor
\* radius at the end face (0 at the bottom, t_length at the top) and the
\* major radius metric_thread_lead_in(pitch) in from that face, so that
\* nothing at a radius up to inner_r within [0, t_length] is removed; a
\* wedge is cut at the flagged ends and at no other.
C14_LeadInMeetsMinorRadiusAtFace ==
    \A i \in Slots :
        LET f == calls[i]
            a == f.args
            ws == f.threads.wedges
        IN  (a.kind = "external" /\ a.force_outer_radius <= 0)
            => /\ \A k \in DOMAIN ws : LeadInWedge(f, ws[k])
               /\ Len(ws) = Cardinality(WedgeEnds(f))
               /\ WedgeEnds(f)
                    = EndsPassed(f)
                      \cap ((IF a.bottom_lead_in THEN {"bottom"} ELSE {})
                            \cup (IF a.top_lead_in THEN {"top"} ELSE {}))

\* A finished external thread with both lead-ins, moved off the origin.
C14_Witness ==
    /\ Done(1, "external")
    /\ calls[1].args.force_outer_radius <= 0
    /\ calls[1].args.bottom_lead_in
    /\ calls[1].args.top_lead_in
    /\ calls[1].args.z_start # 0
    /\ Len(calls[1].threads.wedges) = 2

\* A finished external thread with a lead-in at the top only.
C14_WitnessOneEnd ==
    /\ Done(1, "external")
    /\ calls[1].args.force_outer_radius <= 0
    /\ ~calls[1].args.bottom_lead_in
    /\ calls[1].args.top_lead_in
    /\ WedgeEnds(calls[1]) = {"top"}

\* The number of relief flags of a call.
Reliefs(a) ==
    (IF a.bottom_relief THEN 1 ELSE 0) + (IF a.top_relief THEN 1 ELSE 0)

\* The helix of the call f but for its height: at the unadjusted minor
\* radius, of axial pitch pitch * n_starts, moved down by pitch/2 and
\* turned by 360*(-pitch/2)/(pitch*n_starts), its point at z = 0 at phase
\* 0; so is the first start swept along it, until the generator turns it.
HelixButHeight(f) ==
    LET a == f.args
        w == f.wire
    IN  /\ w.radius = metric_thread_minor_radius(a.diameter, a.pitch,
                                                 a.kind = "internal")
        /\ a.use_epsilon => w.radius # f.r_adj
        /\ w.pitch = a.pitch * a.n_starts
        /\ Add(w.z, w.z) = Neg(Rat(a.pitch))
        /\ 2 * w.angle = 0 - 360 * a.pitch
        /\ w.angle + 360 * (0 - w.z.r) = 0
        /\ (\/ f.pc \in {"starts", "align"}
            \/ a.kind = "external" /\ f.pc = "bottom_cut")
           => /\ f.threads.zref = w.z
              /\ f.threads.starts[1] = w.angle
              /\ PhaseAt(f.threads, 1, 0) = 0

\* C15 as stated: for every call, those with a relief included, the helix
\* has the unadjusted minor radius, axial pitch pitch * n_starts and total
\* height length + pitch, and is translated by -pitch/2 and rotated so that
\* its point at z = 0 has phase 0.
C15_HelixHeightLengthPlusPitch ==
    \A i \in Slots :
        calls[i].wire.made
        => /\ HelixButHeight(calls[i])
           /\ calls[i].wire.height
                = Rat(calls[i].args.length + calls[i].args.pitch)

\* C15, amended: the helix has the unadjusted minor radius, axial pitch
\* pitch * n_starts and total height t_length + pitch, which is
\* length + pitch less 2 * z_off for each relief flag that is set, and is
\* translated by -pitch/2 and rotated so that its point at z = 0 has
\* phase 0.
C15_HelixHeightTrimmedPlusPitch ==
    \A i \in Slots :
        LET f == calls[i]
            a == f.args
        IN  f.wire.made
            => /\ HelixButHeight(f)
               /\ f.wire.height = Add(f.t_length, Rat(a.pitch))
               /\ f.wire.height
                    = Sub(Rat(a.length + a.pitch),
                          Times(2 * Reliefs(a), ZOff(a.pitch)))
               /\ Lt(Zero, ZOff(a.pitch))

\* A swept multi-start external thread with both reliefs and epsilon.
C15_Witness ==
    /\ At(1, "external", "bottom_cut")
    /\ calls[1].wire.made
    /\ Reliefs(calls[1].args) = 2
    /\ calls[1].args.use_epsilon
    /\ calls[1].args.n_starts > 1
    /\ Lt(calls[1].wire.height,
          Rat(calls[1].args.length + calls[1].args.pitch))

\* A swept internal thread with one relief.
C15_WitnessInternal ==
    /\ At(1, "internal", "align")
    /\ calls[1].wire.made
    /\ Reliefs(calls[1].args) = 1
    /\ calls[1].args.use_epsilon

=============================================================================
